---- MODULE Spec2Model ----
(***************************************************************************)
(* Control core of sde_sampler/solver/base.py: Solver (checkpoints),       *)
(* Trainable (training loop and step health gate), CombinedScheduler and   *)
(* MultiStepParams (milestone schedule).                                   *)
(***************************************************************************)
EXTENDS Integers, Sequences, FiniteSets, TLC

(***************************************************************************)
(* Bounds of the model.                                                    *)
(***************************************************************************)
\* largest train_steps among the configurations explored
MaxTrainSteps == 4
\* number of times the process may be stopped and constructed anew
MaxRestarts == 1
\* largest last_step explored for a stand-alone milestone schedule
MaxLastStep == 11
\* most iterations skipped in a run of the scenario specification
MaxSkips == 1
\* how many times the state dict of a schedule on its own is taken
MaxSaves == 2
\* how many operations are called on the schedules directly
MaxCalls == 4
\* most segments of a dotted key
MaxSegments == 3

(***************************************************************************)
(* Python None and optional values.                                        *)
(***************************************************************************)
None == << >>

Some(v) == << v >>

(***************************************************************************)
(* Floating point values of losses and gradients: finite numbers,          *)
(* +inf / -inf and nan, with the torch operations the gate uses.           *)
(***************************************************************************)
Fin(v) == << "fin", v >>

PosInf == << "inf", 1 >>

NegInf == << "inf", -1 >>

NaN == << "nan", 0 >>

IntAbs(v) == IF v < 0 THEN -v ELSE v

IntSign(v) == IF v < 0 THEN -1 ELSE 1

\* torch.Tensor.isfinite on a scalar
isfinite(x) == x[1] = "fin"

\* torch.Tensor.abs on a scalar
abs(x) ==
    CASE x[1] = "fin" -> Fin(IntAbs(x[2]))
      [] x[1] = "inf" -> PosInf
      [] OTHER -> NaN

\* x <= m for a float x and a finite threshold m (every comparison with nan is false)
le(x, m) ==
    CASE x[1] = "fin" -> x[2] <= m
      [] x[1] = "inf" -> x[2] < 0
      [] OTHER -> FALSE

\* k * x for a finite factor k
mul(k, x) ==
    CASE x[1] = "fin" -> Fin(k * x[2])
      [] x[1] = "inf" -> IF k = 0 THEN NaN ELSE << "inf", IntSign(k) * x[2] >>
      [] OTHER -> NaN

\* the greater of two floats, nan propagating (torch max / amax)
fmax(x, y) ==
    CASE x[1] = "nan" \/ y[1] = "nan" -> NaN
      [] x = PosInf \/ y = PosInf -> PosInf
      [] x = NegInf -> y
      [] y = NegInf -> x
      [] OTHER -> IF x[2] >= y[2] THEN x ELSE y

\* torch.linalg.vector_norm(t, inf) of a non-empty tensor t: max of abs
RECURSIVE vector_norm_inf(_)
vector_norm_inf(t) ==
    IF Len(t) = 1 THEN abs(t[1])
    ELSE fmax(abs(Head(t)), vector_norm_inf(Tail(t)))

(***************************************************************************)
(* Exact rational numbers << numerator, denominator >> for the governed    *)
(* values and decay factors.                                               *)
(***************************************************************************)
RECURSIVE GCD(_, _)
GCD(a, b) == IF b = 0 THEN a ELSE GCD(b, a % b)

RNorm(n, d) ==
    LET g == GCD(IntAbs(n), IntAbs(d))
        s == IF d < 0 THEN -1 ELSE 1
    IN  << (s * n) \div g, (s * d) \div g >>

Rat(n, d) == RNorm(n, d)

RMul(x, y) == RNorm(x[1] * y[1], x[2] * y[2])

RECURSIVE RPow(_, _)
RPow(x, n) == IF n = 0 THEN Rat(1, 1) ELSE RMul(x, RPow(x, n - 1))

(***************************************************************************)
(* collections.Counter and bisect.bisect_right, as MultiStepParams uses    *)
(* them.                                                                   *)
(***************************************************************************)
\* Counter(milestones): each distinct milestone with its multiplicity
Counter(ms) ==
    [m \in {ms[i] : i \in DOMAIN ms} |-> Cardinality({i \in DOMAIN ms : ms[i] = m})]

Repeat(m, n) == [i \in 1..n |-> m]

SetMin(S) == CHOOSE m \in S : \A x \in S : m <= x

\* sorted(counter.elements())
RECURSIVE SortedElements(_)
SortedElements(c) ==
    IF DOMAIN c = {} THEN << >>
    ELSE LET m == SetMin(DOMAIN c)
             rest == [k \in DOMAIN c \ {m} |-> c[k]]
         IN  Repeat(m, c[m]) \o SortedElements(rest)

\* bisect_right(a, x) by binary search over a[lo:hi] (0-based indices)
RECURSIVE bisect_loop(_, _, _, _)
bisect_loop(a, x, lo, hi) ==
    IF lo < hi
    THEN LET mid == (lo + hi) \div 2
         IN  IF x < a[mid + 1] THEN bisect_loop(a, x, lo, mid)
             ELSE bisect_loop(a, x, mid + 1, hi)
    ELSE lo

bisect_right(a, x) == bisect_loop(a, x, 0, Len(a))

(***************************************************************************)
(* MultiStepParams.dotted_get on nested values.  A value is a record of    *)
(* its kind ("object", "mapping", "sequence", "number", "none") and its    *)
(* contents; a key is the sequence of its segments, key.split(sep); a call *)
(* ends with a value returned or an exception raised.                      *)
(***************************************************************************)
Object(fields) == [kind |-> "object", val |-> fields]

Mapping(items) == [kind |-> "mapping", val |-> items]

Sequence(elems) == [kind |-> "sequence", val |-> elems]

Number(v) == [kind |-> "number", val |-> v]

PyNone == [kind |-> "none", val |-> 0]

Return(v) == [raised |-> "", obj |-> v]

Raise(exc) == [raised |-> exc, obj |-> PyNone]

\* the strings int() accepts among the segments explored, with their values
IntLiterals == ("0" :> 0) @@ ("1" :> 1) @@ ("2" :> 2)

\* int(attr)
int(attr) == IF attr \in DOMAIN IntLiterals THEN Return(IntLiterals[attr])
             ELSE Raise("ValueError")

\* one round of the loop of dotted_get: the new obj, or the exception raised
dotted_get_round(obj, attr, default) ==
    CASE obj.kind = "sequence" ->
            LET n == int(attr)
            IN  IF n.raised # "" THEN n
                ELSE IF n.obj < Len(obj.val)
                     THEN Raise("TypeError")   \* attr[attr]: attr is an int
                     ELSE Return(default)
      [] obj.kind = "mapping" ->
            Return(IF attr \in DOMAIN obj.val THEN obj.val[attr] ELSE default)
      [] obj.kind = "object" ->
            Return(IF attr \in DOMAIN obj.val THEN obj.val[attr] ELSE default)
      [] OTHER -> Return(default)   \* getattr of a number or None

\* the loop of dotted_get over the segments of the key
RECURSIVE dotted_get_loop(_, _, _)
dotted_get_loop(obj, attrs, default) ==
    IF attrs = << >> THEN Return(obj)
    ELSE LET r == dotted_get_round(obj, Head(attrs), default)
         IN  IF r.raised # "" THEN r
             ELSE IF r.obj = default THEN Return(default)
                  ELSE dotted_get_loop(r.obj, Tail(attrs), default)

\* get() on a nested object, for the keys of gammas in their order: the values, or
\* the first exception a dotted_get raises
RECURSIVE get_keys(_, _, _)
get_keys(obj, keys, output) ==
    IF keys = << >> THEN Return(output)
    ELSE LET r == dotted_get_loop(obj, Head(keys), PyNone)
         IN  IF r.raised # "" THEN r
             ELSE get_keys(obj, Tail(keys), Append(output, r.obj))

\* the start of __init__ on a nested object: base_values are the values that are not
\* None, and the keys of gammas missing from it are discarded
MultiStepParams_init_keys(obj, keys) ==
    LET got == get_keys(obj, keys, << >>)
        kept == {i \in DOMAIN keys : got.obj[i] # PyNone}
    IN  IF got.raised # "" THEN [raised |-> got.raised, gammas |-> {}, base_values |-> << >>]
        ELSE [raised |-> "",
              gammas |-> {keys[i] : i \in kept},
              base_values |-> [k \in {keys[i] : i \in kept} |->
                                  got.obj[CHOOSE i \in kept : keys[i] = k]]]

(***************************************************************************)
(* MultiStepParams.  A schedule is the record of its attributes other     *)
(* than obj (milestones, gammas, base_values, last_step); obj is the       *)
(* object whose attributes it governs, a mapping from attribute name to    *)
(* value.  Operations that write to obj return the pair [s, obj].          *)
(***************************************************************************)
\* dotted_get for a key of one segment on a plain object, the attributes of which
\* are the mapping o: getattr(obj, attr, default)
dotted_get(o, key, default) == IF key \in DOMAIN o THEN o[key] ELSE default

MultiStepParams_get(s, o) == [k \in DOMAIN s.gammas |-> dotted_get(o, k, None)]

\* set: obj.__dict__[attr] = values[key] for every key of gammas
MultiStepParams_set(s, o, values) ==
    [a \in DOMAIN o \cup DOMAIN s.gammas |->
        IF a \in DOMAIN s.gammas THEN values[a] ELSE o[a]]

\* an update that decays the live values instead of the base values
MultiStepParams_update_from_live(s, o) ==
    LET milestones == SortedElements(s.milestones)
        got == MultiStepParams_get(s, o)
        values == [k \in DOMAIN s.base_values |->
                      RMul(got[k], RPow(s.gammas[k], bisect_right(milestones, s.last_step)))]
    IN  [s |-> s, obj |-> MultiStepParams_set(s, o, values)]

MultiStepParams_update(s, o) ==
    LET milestones == SortedElements(s.milestones)
        values == [k \in DOMAIN s.base_values |->
                      RMul(s.base_values[k],
                           RPow(s.gammas[k], bisect_right(milestones, s.last_step)))]
    IN  [s |-> s, obj |-> MultiStepParams_set(s, o, values)]

MultiStepParams_init(o, milestones, gammas, last_step) ==
    LET s0 == [milestones |-> Counter(milestones), gammas |-> gammas]
        got == MultiStepParams_get(s0, o)
        base_values == [k \in {k \in DOMAIN gammas : got[k] # None} |-> got[k]]
        missing == DOMAIN gammas \ DOMAIN base_values
        kept == IF missing # {} THEN [k \in DOMAIN base_values |-> gammas[k]]
                ELSE gammas
        s == [milestones |-> Counter(milestones), gammas |-> kept,
              base_values |-> base_values, last_step |-> last_step]
    IN  MultiStepParams_update(s, o)

\* a step that applies the factor once, whatever the milestone's multiplicity
MultiStepParams_step_once(s, o) ==
    LET s1 == [s EXCEPT !.last_step = s.last_step + 1]
        got == MultiStepParams_get(s1, o)
        values == [k \in DOMAIN got |-> RMul(got[k], s1.gammas[k])]
    IN  IF s1.last_step \in DOMAIN s1.milestones
        THEN [s |-> s1, obj |-> MultiStepParams_set(s1, o, values)]
        ELSE [s |-> s1, obj |-> o]

MultiStepParams_step(s, o) ==
    LET s1 == [s EXCEPT !.last_step = s.last_step + 1]
        got == MultiStepParams_get(s1, o)
        values == [k \in DOMAIN got |->
                      RMul(got[k], RPow(s1.gammas[k], s1.milestones[s1.last_step]))]
    IN  IF s1.last_step \in DOMAIN s1.milestones
        THEN [s |-> s1, obj |-> MultiStepParams_set(s1, o, values)]
        ELSE [s |-> s1, obj |-> o]

\* state_dict: every attribute but obj
MultiStepParams_state_dict(s) == s

\* a load_state_dict that captures the base values anew from the live values
MultiStepParams_load_state_dict_rebases(s, o, state_dict) ==
    LET got == MultiStepParams_get(state_dict, o)
    IN  MultiStepParams_update([state_dict EXCEPT !.base_values = got], o)

\* load_state_dict: __dict__.update(state_dict), then update()
MultiStepParams_load_state_dict(s, o, state_dict) ==
    MultiStepParams_update(state_dict, o)

(***************************************************************************)
(* CombinedScheduler over a list of MultiStepParams children.              *)
(***************************************************************************)
RECURSIVE CombinedScheduler_step_from(_, _, _)
CombinedScheduler_step_from(schedulers, o, i) ==
    IF i > Len(schedulers) THEN [schedulers |-> schedulers, obj |-> o]
    ELSE LET r == MultiStepParams_step(schedulers[i], o)
         IN  CombinedScheduler_step_from([schedulers EXCEPT ![i] = r.s], r.obj, i + 1)

CombinedScheduler_step(schedulers, o) == CombinedScheduler_step_from(schedulers, o, 1)

\* get: the children's governed values merged in list order (later wins)
RECURSIVE CombinedScheduler_get_from(_, _, _, _)
CombinedScheduler_get_from(schedulers, o, i, output) ==
    IF i > Len(schedulers) THEN output
    ELSE LET g == MultiStepParams_get(schedulers[i], o)
             merged == [k \in DOMAIN output \cup DOMAIN g |->
                           IF k \in DOMAIN g THEN g[k] ELSE output[k]]
         IN  CombinedScheduler_get_from(schedulers, o, i + 1, merged)

CombinedScheduler_get(schedulers, o) ==
    CombinedScheduler_get_from(schedulers, o, 1, [k \in {} |-> None])

\* state_dict: {idx: child.state_dict()} with idx counted from 0
CombinedScheduler_state_dict(schedulers) ==
    [idx \in 0..(Len(schedulers) - 1) |-> MultiStepParams_state_dict(schedulers[idx + 1])]

RECURSIVE CombinedScheduler_load_from(_, _, _, _)
CombinedScheduler_load_from(schedulers, o, state_dict, i) ==
    IF i > Len(schedulers) THEN [schedulers |-> schedulers, obj |-> o]
    ELSE LET r == MultiStepParams_load_state_dict(schedulers[i], o, state_dict[i - 1])
         IN  CombinedScheduler_load_from([schedulers EXCEPT ![i] = r.s], r.obj,
                                         state_dict, i + 1)

\* a load that hands the blobs to the children in reverse order
CombinedScheduler_load_state_dict_reversed(schedulers, o, state_dict) ==
    CombinedScheduler_load_from(schedulers, o,
        [idx \in DOMAIN state_dict |-> state_dict[Len(schedulers) - 1 - idx]], 1)

CombinedScheduler_load_state_dict(schedulers, o, state_dict) ==
    CombinedScheduler_load_from(schedulers, o, state_dict, 1)

(***************************************************************************)
(* State of the program.                                                   *)
(***************************************************************************)
VARIABLES
    cfg,            \* the hydra configuration of this experiment (fixed)
    pc,             \* where the process is: "new", "ready", "loop", "done"
    n_steps,        \* Trainable.n_steps
    n_steps_skip,   \* Trainable.n_steps_skip
    time,           \* Trainable.time, in clock ticks
    step_id,        \* the loop variable of Trainable.run
    params,         \* the trainable parameters (a version number)
    ema,            \* number of updates of the EMA shadow copy
    optim,          \* the optimizer's internal state
    scheduler,      \* CombinedScheduler.schedulers
    obj,            \* the attributes of the solver a schedule may govern
    outcome,        \* loss, gradients and gate decision of the last iteration
    ckpt_dir,       \* the checkpoint directory: file name -> stored state dict
    mtime,          \* modification time of every file of ckpt_dir
    clock,          \* the file system's clock
    restarts,       \* how often the process has been stopped and started anew
    executed,       \* the step indices this process has executed, in order
    start_n,        \* n_steps when this process entered Trainable.run
    evals,          \* n_steps at every call of evaluate by this process
    returned,       \* index in evals of the results returned by run (0: none yet)
    flushes,        \* n_steps at every flush of train metrics by this process
    stored,         \* names of the checkpoints this process has written
    loaded,         \* the checkpoint file this process loaded at setup, if any
    snap,           \* file name -> the solver's attributes when it was stored
    stops,          \* where each earlier process was when it was stopped
    seen,           \* step index -> the loss and gradients last computed at it
    calls,          \* the operations called on the schedules directly, in order
    lookup,         \* the object, key and default of a call of dotted_get
    found           \* what that call did: the value returned or the exception raised

vars == << cfg, pc, n_steps, n_steps_skip, time, step_id, params, ema, optim,
           scheduler, obj, outcome, ckpt_dir, mtime, clock, restarts, executed,
           start_n, evals, returned, flushes, stored, loaded, snap, stops, seen,
           calls, lookup, found >>

\* the variables only direct calls of the schedule's methods change
aux == << calls, lookup, found >>

(***************************************************************************)
(* The step health gate of Trainable.step.                                 *)
(***************************************************************************)
\* loss = scale_loss * loss when scale_loss is set
scaled_loss(c, loss) == IF c.scale_loss = None THEN loss ELSE mul(c.scale_loss[1], loss)

\* a loss check that forgets the absolute value
loss_ok_no_abs(c, loss) ==
    IF c.max_loss = None THEN isfinite(loss) ELSE le(loss, c.max_loss[1])

loss_ok(c, loss) ==
    IF c.max_loss = None THEN isfinite(loss) ELSE le(abs(loss), c.max_loss[1])

\* the gradients that are present: [p.grad for p in ... if p.grad is not None]
RECURSIVE present(_)
present(grads) ==
    IF grads = << >> THEN << >>
    ELSE IF Head(grads) = None THEN present(Tail(grads))
         ELSE << Head(grads) >> \o present(Tail(grads))

\* p.grad.isfinite().all()
all_finite(t) == \A i \in DOMAIN t : isfinite(t[i])

\* grad_norm(norm_type=inf): the norm of the stacked per-parameter norms
grad_norm(grads) ==
    LET norms == [i \in DOMAIN present(grads) |-> vector_norm_inf(present(grads)[i])]
    IN  vector_norm_inf(norms)

grad_ok(c, grads) ==
    IF c.max_grad = None
    THEN \A i \in DOMAIN present(grads) : all_finite(present(grads)[i])
    ELSE le(grad_norm(grads), c.max_grad[1])

\* the gate: the optimizer and the scheduler step iff loss_ok and grad_ok
committed(c, in) == loss_ok(c, scaled_loss(c, in.loss)) /\ grad_ok(c, in.grads)

(***************************************************************************)
(* Trainable.step on the training state S = [n_steps, n_steps_skip,        *)
(* params, ema, optim, scheduler, obj], for the loss and gradients `in`    *)
(* that compute_loss and backward produce.                                 *)
(***************************************************************************)
\* optim.step(): one update of the trainable parameters
optim_step(S) ==
    [S EXCEPT !.params = S.params + 1, !.optim = [n_updates |-> S.optim.n_updates + 1]]

scheduler_step(S) ==
    LET r == CombinedScheduler_step(S.scheduler, S.obj)
    IN  [S EXCEPT !.scheduler = r.schedulers, !.obj = r.obj]

ema_update(c, S, sid) ==
    IF c.use_ema /\ sid % c.ema_steps = 0 THEN [S EXCEPT !.ema = S.ema + 1] ELSE S

commit_branch(c, S, sid) == ema_update(c, scheduler_step(optim_step(S)), sid)

\* a skip that still advances the scheduler
skip_branch_steps_scheduler(c, S, sid) ==
    scheduler_step([S EXCEPT !.n_steps_skip = S.n_steps_skip + 1])

skip_branch(c, S, sid) == [S EXCEPT !.n_steps_skip = S.n_steps_skip + 1]

count_step(S) == [S EXCEPT !.n_steps = S.n_steps + 1]

\* a step that counts only the committed iterations
Trainable_step_counts_commits(c, S, in, sid) ==
    IF committed(c, in) THEN count_step(commit_branch(c, S, sid))
    ELSE skip_branch(c, S, sid)

Trainable_step(c, S, in, sid) ==
    count_step(IF committed(c, in) THEN commit_branch(c, S, sid)
               ELSE skip_branch(c, S, sid))

(***************************************************************************)
(* Solver.state_dict / load_state_dict over save_attrs, and the checkpoint *)
(* files.                                                                  *)
(***************************************************************************)
\* Trainable.save_attrs
save_attrs == << "n_steps", "time", "optim", "scheduler" >>

\* getattr(attr, "load_state_dict", None): the optimizer and the scheduler have one
has_load_state_dict(key) == key \in {"optim", "scheduler"}

Solver_state_dict(S) ==
    [key \in {save_attrs[i] : i \in DOMAIN save_attrs} |->
        IF has_load_state_dict(key)
        THEN (IF key = "scheduler" THEN CombinedScheduler_state_dict(S.scheduler)
              ELSE S.optim)
        ELSE S[key]]

\* one round of the loop of load_state_dict, for save_attrs[i]
load_attr(S, key, state_dict) ==
    IF key \notin DOMAIN state_dict THEN S
    ELSE IF key = "scheduler"
         THEN LET r == CombinedScheduler_load_state_dict(S.scheduler, S.obj,
                                                         state_dict[key])
              IN  [S EXCEPT !.scheduler = r.schedulers, !.obj = r.obj]
         ELSE [S EXCEPT ![key] = state_dict[key]]

RECURSIVE load_from(_, _, _)
load_from(S, state_dict, i) ==
    IF i > Len(save_attrs) THEN S
    ELSE load_from(load_attr(S, save_attrs[i], state_dict), state_dict, i + 1)

Solver_load_state_dict(S, state_dict) == load_from(S, state_dict, 1)

\* width of the step count in a checkpoint's suffix, f"{n_steps:06}"
PadWidth == 6

DigitChar(d) == << "0", "1", "2", "3", "4", "5", "6", "7", "8", "9" >>[d + 1]

RECURSIVE Digits(_)
Digits(n) == IF n < 10 THEN << DigitChar(n) >> ELSE Digits(n \div 10) \o << DigitChar(n % 10) >>

\* f"{n:06}": the decimal digits of n, padded with zeros on the left
format06(n) ==
    LET d == Digits(n)
    IN  IF Len(d) >= PadWidth THEN d ELSE Repeat("0", PadWidth - Len(d)) \o d

\* the suffix of the checkpoint Solver.forward stores after run
final_suffix == << "_", "f", "i", "n", "a", "l" >>

\* store_checkpoint: torch.save(self.state_dict(), ckpt_dir / f"ckpt{suffix}.pt")
store_checkpoint(dir, suffix, S) ==
    [f \in DOMAIN dir \cup {suffix} |-> IF f = suffix THEN Solver_state_dict(S) ELSE dir[f]]

touch(mt, suffix, now) ==
    [f \in DOMAIN mt \cup {suffix} |-> IF f = suffix THEN now ELSE mt[f]]

\* the checkpoint with the oldest modification time instead of the most recent
latest_checkpoint_oldest(dir, mt) ==
    IF DOMAIN dir = {} THEN None
    ELSE Some(CHOOSE f \in DOMAIN dir : \A g \in DOMAIN dir : mt[f] <= mt[g])

\* latest_checkpoint: max(ckpts, key=os.path.getmtime), None without checkpoints
latest_checkpoint(dir, mt) ==
    IF DOMAIN dir = {} THEN None
    ELSE Some(CHOOSE f \in DOMAIN dir : \A g \in DOMAIN dir : mt[g] <= mt[f])

\* load_checkpoint(ckpt_file): the state after it, and the state dict it loaded
checkpoint_to_load(c, dir, mt) ==
    IF c.ckpt_file = None THEN latest_checkpoint(dir, mt) ELSE c.ckpt_file

load_checkpoint(c, S, dir, mt) ==
    LET file == checkpoint_to_load(c, dir, mt)
    IN  IF file = None THEN S ELSE Solver_load_state_dict(S, dir[file[1]])

(***************************************************************************)
(* Trainable.__init__: the training state of a newly constructed solver.   *)
(***************************************************************************)
RECURSIVE build_schedulers(_, _, _)
build_schedulers(cfgs, schedulers, o) ==
    IF cfgs = << >> THEN [schedulers |-> schedulers, obj |-> o]
    ELSE LET r == MultiStepParams_init(o, Head(cfgs).milestones, Head(cfgs).gammas,
                                       Head(cfgs).last_step)
         IN  build_schedulers(Tail(cfgs), Append(schedulers, r.s), r.obj)

Trainable_init(c) ==
    LET r == build_schedulers(c.scheduler, << >>, c.models)
    IN  [n_steps |-> 0, n_steps_skip |-> 0, time |-> 0, params |-> 0, ema |-> 0,
         optim |-> [n_updates |-> 0], scheduler |-> r.schedulers, obj |-> r.obj]

\* cfg.get("eval_interval") or train_steps, and likewise for the other two
eval_interval(c) == IF c.eval_interval = 0 THEN c.train_steps ELSE c.eval_interval

log_interval(c) == IF c.log_interval = 0 THEN c.train_steps ELSE c.log_interval

ckpt_interval(c) == IF c.ckpt_interval = 0 THEN c.train_steps ELSE c.ckpt_interval

\* the decisions of one loop iteration of run, n being n_steps after the step
is_last_step(c, n) == n = c.train_steps

\* logging on the interval only, not on the last step
log_due_interval_only(c, n) == n % log_interval(c) = 0

log_due(c, n) == n % log_interval(c) = 0 \/ is_last_step(c, n)

\* evaluation in the loop on the last step too
eval_due_at_last(c, n) == n % eval_interval(c) = 0

eval_due(c, n) == ~is_last_step(c, n) /\ n % eval_interval(c) = 0

\* a checkpoint in the loop on the last step too
ckpt_due_at_last(c, n) == n % ckpt_interval(c) = 0

ckpt_due(c, n) == ~is_last_step(c, n) /\ n % ckpt_interval(c) = 0

\* a loop that starts over from step index 0
range_start_zero(n) == 0

\* range(self.n_steps, self.train_steps): the first step index of the loop
range_start(n) == n

\* an initial evaluation whenever eval_init is set, resumed or not
initial_eval_due_always(c, n) == c.eval_init

\* run evaluates before the loop iff no step was taken yet and eval_init is set
initial_eval_due(c, n) == n = 0 /\ c.eval_init

\* forward stores the final checkpoint iff store_last_ckpt is set
final_ckpt_due(c) == c.store_last_ckpt

(***************************************************************************)
(* Configurations and inputs explored.                                     *)
(***************************************************************************)
\* attributes setup_models gives the solver; "zeta" is not among them
Models == [sigma |-> Rat(8, 1), beta |-> Rat(3, 1)]

\* one schedule: milestone 2 twice, halving sigma
SchedulersA ==
    << [milestones |-> << 2, 2 >>, gammas |-> [sigma |-> Rat(1, 2)], last_step |-> 0] >>

\* two schedules: the first names a missing attribute, the second grows beta
SchedulersB ==
    << [milestones |-> << 1, 3 >>, gammas |-> [sigma |-> Rat(1, 2), zeta |-> Rat(1, 3)],
        last_step |-> 0],
       [milestones |-> << 0, 2 >>, gammas |-> [beta |-> Rat(2, 1)], last_step |-> 0] >>

Cfg(T, ei, li, ci, einit, uema, ml, mg, last, sch) ==
    [train_steps |-> T, eval_interval |-> ei, log_interval |-> li, ckpt_interval |-> ci,
     eval_init |-> einit, use_ema |-> uema, ema_steps |-> 2, max_loss |-> ml,
     max_grad |-> mg, scale_loss |-> None, store_last_ckpt |-> last, ckpt_file |-> None,
     scheduler |-> sch, models |-> Models]

Configs ==
    { Cfg(MaxTrainSteps, 2, 1, 1, FALSE, FALSE, None, None, TRUE, SchedulersA),
      Cfg(MaxTrainSteps, 0, 0, 0, TRUE, TRUE, Some(5), Some(5), FALSE, SchedulersA),
      Cfg(MaxTrainSteps, 3, 2, 2, FALSE, TRUE, None, Some(5), FALSE, SchedulersB),
      Cfg(MaxTrainSteps - 1, 1, 3, 2, TRUE, FALSE, Some(5), None, TRUE, SchedulersB),
      Cfg(MaxTrainSteps - 1, 2, 2, 1, FALSE, TRUE, Some(5), Some(5), FALSE, SchedulersB) }

\* what compute_loss and backward give in one iteration: the loss, the gradients of
\* two trainable parameters (backward has left one on at least one of them), and dt,
\* the seconds the iteration takes
Healthy == [loss |-> Fin(1), grads |-> << << Fin(1), Fin(-2) >>, None >>, dt |-> 1]

LossNaN == [loss |-> NaN, grads |-> << << Fin(1), Fin(-2) >>, << Fin(0) >> >>, dt |-> 2]

LossBig == [loss |-> Fin(-9), grads |-> << None, << Fin(1) >> >>, dt |-> 1]

GradBig == [loss |-> Fin(1), grads |-> << << Fin(1), Fin(-9) >>, << Fin(2) >> >>, dt |-> 2]

Inputs == {Healthy, LossNaN, GradBig}

\* the configurations of the health gate: each threshold unset or 5, the loss
\* unscaled or scaled by -2, one iteration
GateConfigs ==
    { [Cfg(1, 0, 0, 0, FALSE, FALSE, ml, mg, FALSE, SchedulersA)
          EXCEPT !.scale_loss = sl] :
        ml \in {None, Some(5)}, mg \in {None, Some(5)}, sl \in {None, Some(-2)} }

GateLosses == {Fin(1), Fin(5), Fin(-9), PosInf, NegInf, NaN}

GateGrads ==
    {None, << Fin(1), Fin(-2) >>, << Fin(-9), Fin(0) >>, << Fin(5) >>,
     << PosInf, Fin(1) >>, << Fin(1), NaN >>}

\* every loss with every pair of gradients of which at least one is present
GateInputs ==
    { in \in [loss : GateLosses, grads : GateGrads \X GateGrads, dt : {1}] :
        in.grads[1] # None \/ in.grads[2] # None }

\* nested values a key may address: a mapping, a sequence holding it, and roots of
\* each kind
InnerMapping == Mapping(("a" :> Number(1)) @@ ("0" :> Number(2)))

Layers == Sequence(<< Number(5), InnerMapping >>)

Roots ==
    { Object(("layers" :> Layers) @@ ("sde" :> Object("sigma" :> Number(8)))
             @@ ("cfg" :> InnerMapping)),
      Mapping(("layers" :> Layers) @@ ("a" :> Number(1))),
      Layers }

Segments == {"layers", "sde", "sigma", "cfg", "a", "0", "1", "2"}

\* the keys of 1 to MaxSegments segments
Keys == UNION { [1..n -> Segments] : n \in 1..MaxSegments }

Lookups == [obj : Roots, key : Keys, default : {PyNone, Number(0)}]

\* the keys of one or two segments
GammaKeys == UNION { [1..n -> Segments] : n \in 1..2 }

\* the gammas of a schedule, as the list of its keys in the order of the dict: any
\* one key, or two different keys of one or two segments
Constructions ==
    [obj : Roots,
     keys : { << k >> : k \in Keys }
            \cup { p \in GammaKeys \X GammaKeys : p[1] # p[2] }]

\* the scenario of the specification: 100 steps, evaluation every 50, logging
\* every 10, checkpoints every 25, no initial evaluation
Scenario == Cfg(100, 50, 10, 25, FALSE, FALSE, None, None, TRUE, SchedulersA)

\* the example of the specification: milestones [10, 10] halving a value of 8
SchedulersX ==
    << [milestones |-> << 10, 10 >>, gammas |-> [sigma |-> Rat(1, 2)], last_step |-> 0] >>

\* two schedules on different attributes, the first constructed with last_step = 2
SchedulersY ==
    << [milestones |-> << 1, 3, 3 >>, gammas |-> [sigma |-> Rat(1, 2)], last_step |-> 2],
       [milestones |-> << 0, 2, 5 >>, gammas |-> [beta |-> Rat(3, 1)], last_step |-> 0] >>

\* two schedules that both govern sigma, the second also beta
SchedulersShared ==
    << [milestones |-> << 1, 2 >>, gammas |-> [sigma |-> Rat(1, 2)], last_step |-> 0],
       [milestones |-> << 2, 4, 4 >>, gammas |-> [sigma |-> Rat(1, 4), beta |-> Rat(2, 1)],
        last_step |-> 0] >>

\* the configurations of a milestone schedule used on its own
SchedConfigs ==
    { Cfg(1, 0, 0, 0, FALSE, FALSE, None, None, FALSE, sch) :
        sch \in {SchedulersX, SchedulersY, SchedulersB} }

ScenarioInputs == {Healthy, LossNaN}

(***************************************************************************)
(* The process: Solver.forward = setup, run (loop), final checkpoint.      *)
(***************************************************************************)
\* the attributes of the solver as one record
Self ==
    [n_steps |-> n_steps, n_steps_skip |-> n_steps_skip, time |-> time,
     params |-> params, ema |-> ema, optim |-> optim, scheduler |-> scheduler,
     obj |-> obj]

Becomes(S) ==
    /\ n_steps' = S.n_steps
    /\ n_steps_skip' = S.n_steps_skip
    /\ time' = S.time
    /\ params' = S.params
    /\ ema' = S.ema
    /\ optim' = S.optim
    /\ scheduler' = S.scheduler
    /\ obj' = S.obj

NoOutcome == [loss |-> NaN, grads |-> << >>, committed |-> FALSE, step_id |-> -1]

\* a process that has not done anything yet
NewProcess ==
    /\ pc' = "new"
    /\ step_id' = 0
    /\ outcome' = NoOutcome
    /\ executed' = << >>
    /\ start_n' = 0
    /\ evals' = << >>
    /\ returned' = 0
    /\ flushes' = << >>
    /\ stored' = << >>
    /\ loaded' = None

\* the solver after construction, with an empty checkpoint directory
InitSolver(C) ==
    /\ cfg \in C
    /\ pc = "new"
    /\ n_steps = Trainable_init(cfg).n_steps
    /\ n_steps_skip = Trainable_init(cfg).n_steps_skip
    /\ time = Trainable_init(cfg).time
    /\ params = Trainable_init(cfg).params
    /\ ema = Trainable_init(cfg).ema
    /\ optim = Trainable_init(cfg).optim
    /\ scheduler = Trainable_init(cfg).scheduler
    /\ obj = Trainable_init(cfg).obj
    /\ step_id = 0
    /\ outcome = NoOutcome
    /\ ckpt_dir = [f \in {} |-> None]
    /\ mtime = [f \in {} |-> 0]
    /\ clock = 0
    /\ restarts = 0
    /\ executed = << >>
    /\ start_n = 0
    /\ evals = << >>
    /\ returned = 0
    /\ flushes = << >>
    /\ stored = << >>
    /\ loaded = None
    /\ snap = [f \in {} |-> None]
    /\ stops = << >>
    /\ seen = << >>
    /\ calls = << >>

InitWith(C) ==
    /\ InitSolver(C)
    /\ lookup = None
    /\ found = None

Init == InitWith(Configs)

\* Solver.setup: load_checkpoint(ckpt_file)
Setup ==
    /\ pc = "new"
    /\ pc' = "ready"
    /\ Becomes(load_checkpoint(cfg, Self, ckpt_dir, mtime))
    /\ loaded' = checkpoint_to_load(cfg, ckpt_dir, mtime)
    /\ UNCHANGED << aux, cfg, step_id, outcome, ckpt_dir, mtime, clock, restarts, executed,
                    start_n, evals, returned, flushes, stored, snap, stops, seen >>

\* Trainable.run up to the loop: the initial evaluation, range(n_steps, train_steps)
RunBegin ==
    /\ pc = "ready"
    /\ pc' = "loop"
    /\ evals' = IF initial_eval_due(cfg, n_steps) THEN Append(evals, n_steps) ELSE evals
    /\ step_id' = range_start(n_steps)
    /\ start_n' = n_steps
    /\ UNCHANGED << aux, cfg, n_steps, n_steps_skip, time, params, ema, optim, scheduler,
                    obj, outcome, ckpt_dir, mtime, clock, restarts, executed, returned,
                    flushes, stored, loaded, snap, stops, seen >>

\* one iteration of the loop of Trainable.run, compute_loss and backward giving `in`
Iterate(in) ==
    /\ pc = "loop"
    /\ step_id < cfg.train_steps
    /\ LET S1 == Trainable_step(cfg, Self, in, step_id)
           S2 == [S1 EXCEPT !.time = S1.time + in.dt]
           n == S2.n_steps
           suffix == format06(n)
       IN  /\ Becomes(S2)
           /\ outcome' = [loss |-> scaled_loss(cfg, in.loss), grads |-> in.grads,
                          committed |-> committed(cfg, in), step_id |-> step_id]
           /\ flushes' = IF log_due(cfg, n) THEN Append(flushes, n) ELSE flushes
           /\ evals' = IF eval_due(cfg, n) THEN Append(evals, n) ELSE evals
           /\ IF ckpt_due(cfg, n)
              THEN /\ ckpt_dir' = store_checkpoint(ckpt_dir, suffix, S2)
                   /\ mtime' = touch(mtime, suffix, clock + 1)
                   /\ clock' = clock + 1
                   /\ stored' = Append(stored, suffix)
                   /\ snap' = touch(snap, suffix, S2)
              ELSE UNCHANGED << ckpt_dir, mtime, clock, stored, snap >>
    /\ step_id' = step_id + 1
    /\ executed' = Append(executed, step_id)
    /\ seen' = IF step_id < Len(seen) THEN [seen EXCEPT ![step_id + 1] = in]
               ELSE Append(seen, in)
    /\ UNCHANGED << aux, cfg, pc, restarts, start_n, returned, loaded, stops >>

\* the end of Trainable.run (the final evaluation, whose results it returns) and the
\* rest of Solver.forward (the final checkpoint)
Finish ==
    /\ pc = "loop"
    /\ step_id >= cfg.train_steps
    /\ pc' = "done"
    /\ evals' = Append(evals, n_steps)
    /\ returned' = Len(evals) + 1
    /\ IF final_ckpt_due(cfg)
       THEN /\ ckpt_dir' = store_checkpoint(ckpt_dir, final_suffix, Self)
            /\ mtime' = touch(mtime, final_suffix, clock + 1)
            /\ clock' = clock + 1
            /\ stored' = Append(stored, final_suffix)
            /\ snap' = touch(snap, final_suffix, Self)
       ELSE UNCHANGED << ckpt_dir, mtime, clock, stored, snap >>
    /\ UNCHANGED << aux, cfg, n_steps, n_steps_skip, time, step_id, params, ema, optim,
                    scheduler, obj, outcome, restarts, executed, start_n, flushes,
                    loaded, stops, seen >>

\* the process is stopped between iterations (or has ended) and the experiment is
\* started again: a new solver is constructed on the same checkpoint directory
Restart ==
    /\ pc \in {"loop", "done"}
    /\ restarts < MaxRestarts
    /\ restarts' = restarts + 1
    /\ Becomes(Trainable_init(cfg))
    /\ NewProcess
    /\ stops' = Append(stops, pc)
    /\ UNCHANGED << aux, cfg, ckpt_dir, mtime, clock, snap, seen >>

Next ==
    \/ Setup
    \/ RunBegin
    \/ \E in \in Inputs : Iterate(in)
    \/ Finish
    \/ Restart

Spec == Init /\ [][Next]_vars

\* the objective is deterministic (same seed): a step index that is executed again
\* after a restart computes the loss and gradients it computed before
Replays(in) == step_id < Len(seen) => in = seen[step_id + 1]

SeededNext ==
    \/ Setup
    \/ RunBegin
    \/ \E in \in Inputs : Replays(in) /\ Iterate(in)
    \/ Finish
    \/ Restart

SeededSpec == Init /\ [][SeededNext]_vars

\* one iteration of one process, for every loss and gradients of the gate
GateNext ==
    \/ Setup
    \/ RunBegin
    \/ \E in \in GateInputs : Iterate(in)
    \/ Finish

GateSpec == InitWith(GateConfigs) /\ [][GateNext]_vars

\* at most MaxSkips iterations of the run are skipped
WithinSkips(in) == committed(cfg, in) \/ n_steps_skip < MaxSkips

\* one run that is never stopped, of any configuration and of the scenario
RunNext ==
    \/ Setup
    \/ RunBegin
    \/ \E in \in ScenarioInputs : WithinSkips(in) /\ Iterate(in)
    \/ Finish

RunSpec == InitWith(Configs \cup {Scenario}) /\ [][RunNext]_vars

(***************************************************************************)
(* The schedules of a constructed solver used on their own: step, update,  *)
(* state_dict and load_state_dict in any order.                            *)
(***************************************************************************)
\* scheduler.step()
SchedStep ==
    /\ pc = "new"
    /\ \A i \in DOMAIN scheduler : scheduler[i].last_step < MaxLastStep
    /\ Becomes(scheduler_step(Self))
    /\ UNCHANGED << aux, cfg, pc, step_id, outcome, ckpt_dir, mtime, clock, restarts,
                    executed, start_n, evals, returned, flushes, stored, loaded, snap,
                    stops, seen >>

\* schedulers[i].update()
SchedUpdate(i) ==
    /\ pc = "new"
    /\ LET r == MultiStepParams_update(scheduler[i], obj)
       IN  Becomes([Self EXCEPT !.scheduler[i] = r.s, !.obj = r.obj])
    /\ UNCHANGED << aux, cfg, pc, step_id, outcome, ckpt_dir, mtime, clock, restarts,
                    executed, start_n, evals, returned, flushes, stored, loaded, snap,
                    stops, seen >>

\* the state dict is taken and kept (as the final checkpoint)
SchedSave ==
    /\ pc = "new"
    /\ clock < MaxSaves
    /\ ckpt_dir' = store_checkpoint(ckpt_dir, final_suffix, Self)
    /\ mtime' = touch(mtime, final_suffix, clock + 1)
    /\ clock' = clock + 1
    /\ snap' = touch(snap, final_suffix, Self)
    /\ UNCHANGED << aux, cfg, pc, n_steps, n_steps_skip, time, step_id, params, ema, optim,
                    scheduler, obj, outcome, restarts, executed, start_n, evals,
                    returned, flushes, stored, loaded, stops, seen >>

\* load_state_dict of a state dict kept earlier
SchedLoad ==
    /\ pc = "new"
    /\ \E f \in DOMAIN ckpt_dir :
          /\ Becomes(Solver_load_state_dict(Self, ckpt_dir[f]))
          /\ loaded' = Some(f)
    /\ UNCHANGED << aux, cfg, pc, step_id, outcome, ckpt_dir, mtime, clock, restarts,
                    executed, start_n, evals, returned, flushes, stored, snap, stops,
                    seen >>

SchedNext ==
    \/ SchedStep
    \/ \E i \in DOMAIN scheduler : SchedUpdate(i)
    \/ SchedSave
    \/ SchedLoad

SchedSpec == InitWith(SchedConfigs) /\ [][SchedNext]_vars

\* the same operations on combined schedules of two children, also such as share a
\* governed attribute
CombinedConfigs ==
    { Cfg(1, 0, 0, 0, FALSE, FALSE, None, None, FALSE, sch) :
        sch \in {SchedulersB, SchedulersY, SchedulersShared} }

CombinedSpec == InitWith(CombinedConfigs) /\ [][SchedNext]_vars

(***************************************************************************)
(* The methods of the schedules called directly, in any order, while other *)
(* code writes to the attributes they govern; calls records the calls.     *)
(***************************************************************************)
\* what a direct call leaves alone
CallFrame ==
    UNCHANGED << cfg, pc, n_steps, n_steps_skip, time, step_id, params, ema, optim,
                 outcome, ckpt_dir, mtime, clock, restarts, executed, start_n, evals,
                 returned, flushes, stored, loaded, snap, stops, seen, lookup, found >>

\* the value another writer leaves at an attribute
Drifted == Rat(7, 1)

\* code other than the schedule assigns to an attribute of the object
Drift(p) ==
    /\ pc = "new"
    /\ Len(calls) < MaxCalls
    /\ obj' = [obj EXCEPT ![p] = Drifted]
    /\ calls' = Append(calls, << "drift", p >>)
    /\ UNCHANGED scheduler
    /\ CallFrame

\* schedulers[i].step()
CallStep(i) ==
    /\ pc = "new"
    /\ Len(calls) < MaxCalls
    /\ LET r == MultiStepParams_step(scheduler[i], obj)
       IN  /\ scheduler' = [scheduler EXCEPT ![i] = r.s]
           /\ obj' = r.obj
    /\ calls' = Append(calls, << "step", i >>)
    /\ CallFrame

\* schedulers[i].update()
CallUpdate(i) ==
    /\ pc = "new"
    /\ Len(calls) < MaxCalls
    /\ LET r == MultiStepParams_update(scheduler[i], obj)
       IN  /\ scheduler' = [scheduler EXCEPT ![i] = r.s]
           /\ obj' = r.obj
    /\ calls' = Append(calls, << "update", i >>)
    /\ CallFrame

\* schedulers[i].load_state_dict(schedulers[i].state_dict())
CallReload(i) ==
    /\ pc = "new"
    /\ Len(calls) < MaxCalls
    /\ LET r == MultiStepParams_load_state_dict(scheduler[i], obj,
                                                MultiStepParams_state_dict(scheduler[i]))
       IN  /\ scheduler' = [scheduler EXCEPT ![i] = r.s]
           /\ obj' = r.obj
    /\ calls' = Append(calls, << "reload", i >>)
    /\ CallFrame

CallNext ==
    \/ \E p \in DOMAIN obj : Drift(p)
    \/ \E i \in DOMAIN scheduler : CallStep(i)
    \/ \E i \in DOMAIN scheduler : CallUpdate(i)
    \/ \E i \in DOMAIN scheduler : CallReload(i)

CallConfigs ==
    { Cfg(1, 0, 0, 0, FALSE, FALSE, None, None, FALSE, sch) :
        sch \in {SchedulersA, SchedulersB, SchedulersY} }

CallSpec == InitWith(CallConfigs) /\ [][CallNext]_vars

(***************************************************************************)
(* One call of dotted_get on a nested value.                               *)
(***************************************************************************)
LookupInit ==
    /\ InitSolver({Scenario})
    /\ lookup \in Lookups
    /\ found = None

\* dotted_get(key, default) on the object of the lookup
Lookup ==
    /\ found = None
    /\ found' = Some(dotted_get_loop(lookup.obj, lookup.key, lookup.default))
    /\ UNCHANGED << cfg, pc, n_steps, n_steps_skip, time, step_id, params, ema, optim,
                    scheduler, obj, outcome, ckpt_dir, mtime, clock, restarts, executed,
                    start_n, evals, returned, flushes, stored, loaded, snap, stops, seen,
                    calls, lookup >>

LookupNext == Lookup

LookupSpec == LookupInit /\ [][LookupNext]_vars

(***************************************************************************)
(* The construction of one schedule on a nested value.                     *)
(***************************************************************************)
ConstructInit ==
    /\ InitSolver({Scenario})
    /\ lookup \in Constructions
    /\ found = None

\* MultiStepParams(obj, milestones, gammas): the keys it keeps, or the exception
Construct ==
    /\ found = None
    /\ found' = Some(MultiStepParams_init_keys(lookup.obj, lookup.keys))
    /\ UNCHANGED << cfg, pc, n_steps, n_steps_skip, time, step_id, params, ema, optim,
                    scheduler, obj, outcome, ckpt_dir, mtime, clock, restarts, executed,
                    start_n, evals, returned, flushes, stored, loaded, snap, stops, seen,
                    calls, lookup >>

ConstructNext == Construct

ConstructSpec == ConstructInit /\ [][ConstructNext]_vars

(***************************************************************************)
(* The health checks as the specification words them, component by         *)
(* component.                                                              *)
(***************************************************************************)
HealthyLoss(c, loss) ==
    IF c.max_loss = None THEN loss[1] = "fin"
    ELSE loss[1] = "fin" /\ -c.max_loss[1] <= loss[2] /\ loss[2] <= c.max_loss[1]

HealthyComponent(c, x) ==
    IF c.max_grad = None THEN x[1] = "fin"
    ELSE x[1] = "fin" /\ -c.max_grad[1] <= x[2] /\ x[2] <= c.max_grad[1]

HealthyGrads(c, grads) ==
    \A i \in DOMAIN grads :
        grads[i] # None => \A j \in DOMAIN grads[i] : HealthyComponent(c, grads[i][j])

\* the transition is one loop iteration
IsIteration == Len(executed') = Len(executed) + 1

(***************************************************************************)
(* Claims.                                                                 *)
(***************************************************************************)
\* C1: after N iterations of the loop n_steps is its value at the start of the run
\* plus N, whether the iterations were committed or skipped.
C1_StepCount == pc \in {"loop", "done"} => n_steps = start_n + Len(executed)

\* C1 witness: a resumed run (n_steps started above 0) that has committed some
\* iterations and skipped others.
C1_Witness ==
    /\ pc = "loop"
    /\ start_n > 0
    /\ n_steps_skip >= 1
    /\ Len(executed) > n_steps_skip

\* C2: an iteration whose loss or gradients fail a health check leaves the
\* parameters, the optimizer, the schedules with their governed values and the EMA
\* copy as they were and adds exactly 1 to n_steps_skip; a committed iteration leaves
\* n_steps_skip as it was.
C2_SkipFrame ==
    [][IsIteration =>
        IF HealthyLoss(cfg, outcome'.loss) /\ HealthyGrads(cfg, outcome'.grads)
        THEN n_steps_skip' = n_steps_skip
        ELSE /\ params' = params
             /\ optim' = optim
             /\ scheduler' = scheduler
             /\ obj' = obj
             /\ ema' = ema
             /\ n_steps_skip' = n_steps_skip + 1]_vars

\* C2 witness: an iteration was skipped after the optimizer, a schedule milestone
\* and the EMA copy had all been updated by earlier iterations.
C2_Witness ==
    /\ pc = "loop"
    /\ outcome.step_id >= 0
    /\ ~outcome.committed
    /\ n_steps_skip >= 1
    /\ optim.n_updates >= 2
    /\ ema >= 1
    /\ obj # Trainable_init(cfg).obj

\* C3: the gate commits an iteration (the optimizer steps, n_steps_skip stays) iff
\* the loss check and the gradient check both pass, and skips it (the optimizer
\* stays, n_steps_skip grows by 1) otherwise, for every loss and gradients: finite,
\* over the threshold, infinite or nan, with each threshold set or unset.
C3_Gate ==
    [][IsIteration =>
        LET healthy == HealthyLoss(cfg, outcome'.loss) /\ HealthyGrads(cfg, outcome'.grads)
            commit == optim'.n_updates = optim.n_updates + 1 /\ n_steps_skip' = n_steps_skip
            skip == optim' = optim /\ n_steps_skip' = n_steps_skip + 1
        IN  (healthy => commit) /\ (~healthy => skip)]_vars

\* C3 witness: with both thresholds set, a loss equal to max_loss and a gradient
\* with a nan component, the iteration was skipped.
C3_Witness ==
    /\ pc = "loop"
    /\ outcome.step_id = 0
    /\ cfg.max_loss # None
    /\ cfg.max_grad # None
    /\ outcome.loss = Fin(cfg.max_loss[1])
    /\ outcome.grads[2] = << Fin(1), NaN >>
    /\ n_steps_skip = 1
    /\ optim.n_updates = 0

\* the values the schedules govern
Governed(S) == CombinedScheduler_get(S.scheduler, S.obj)

LastSteps(S) == [i \in DOMAIN S.scheduler |-> S.scheduler[i].last_step]

\* C4: right after a checkpoint is loaded (here by a newly constructed solver, at
\* setup) the progress state (n_steps, n_steps_skip, time), the optimizer state and
\* the schedule state (governed values, last_step) are those the solver had when it
\* stored that checkpoint.
C4_RoundTrip ==
    (pc = "ready" /\ loaded # None) =>
        LET B == snap[loaded[1]]
        IN  /\ n_steps = B.n_steps
            /\ n_steps_skip = B.n_steps_skip
            /\ time = B.time
            /\ optim = B.optim
            /\ LastSteps(Self) = LastSteps(B)
            /\ Governed(Self) = Governed(B)

\* the training state of a run of step indices 0 .. Len(inputs) - 1 that is never
\* stopped, inputs[sid + 1] being computed at step index sid
RECURSIVE RunFrom(_, _, _, _)
RunFrom(c, S, inputs, sid) ==
    IF sid >= Len(inputs) THEN S
    ELSE RunFrom(c, Trainable_step(c, S, inputs[sid + 1], sid), inputs, sid + 1)

Uninterrupted(c, inputs) == RunFrom(c, Trainable_init(c), inputs, 0)

\* C6: with the same loss and gradients at every step index, a run that was stopped
\* between iterations and started again from its latest checkpoint ends with the
\* n_steps, n_steps_skip, last_step and governed values of the run that is never
\* stopped.
C6_ResumeEquivalence ==
    (pc = "done" /\ stops # << >> /\ \A i \in DOMAIN stops : stops[i] = "loop") =>
        LET R == Uninterrupted(cfg, seen)
        IN  /\ n_steps = R.n_steps
            /\ n_steps_skip = R.n_steps_skip
            /\ LastSteps(Self) = LastSteps(R)
            /\ Governed(Self) = Governed(R)

\* C5: a run that starts with n_steps = k <= train_steps executes the step indices
\* k, k+1, ... in order, each once (none below k, none twice); every iteration moves
\* the loop variable one step towards train_steps, which it never passes, so the
\* loop ends; and the run is done after exactly train_steps - k iterations, with
\* n_steps = train_steps.
C5_RunLength ==
    /\ (pc \in {"loop", "done"} /\ start_n <= cfg.train_steps) =>
          /\ executed = [i \in 1..Len(executed) |-> start_n + i - 1]
          /\ step_id = start_n + Len(executed)
          /\ step_id <= cfg.train_steps
    /\ (pc = "done" /\ start_n <= cfg.train_steps) =>
          /\ Len(executed) = cfg.train_steps - start_n
          /\ n_steps = cfg.train_steps

\* C5 witness: a run resumed from a checkpoint taken midway is done.
C5_Witness ==
    /\ pc = "done"
    /\ loaded # None
    /\ start_n > 0
    /\ start_n < cfg.train_steps
    /\ n_steps_skip >= 1

(***************************************************************************)
(* What one run is expected to have done, from the step counts alone.      *)
(***************************************************************************)
\* the steps lo+1 .. hi, in order
StepsAfter(lo, hi) == [i \in 1..(hi - lo) |-> lo + i]

IsDigit(ch) == ch \in {"0", "1", "2", "3", "4", "5", "6", "7", "8", "9"}

DigitValue(ch) == CHOOSE d \in 0..9 : DigitChar(d) = ch

\* the number a sequence of digits denotes
RECURSIVE DecimalValue(_)
DecimalValue(d) ==
    IF d = << >> THEN 0
    ELSE 10 * DecimalValue(SubSeq(d, 1, Len(d) - 1)) + DigitValue(d[Len(d)])

\* tag is the step count n, zero-padded to six digits
IsStepTag(tag, n) ==
    /\ Len(tag) = 6
    /\ \A i \in DOMAIN tag : IsDigit(tag[i])
    /\ DecimalValue(tag) = n

\* the steps of this run, up to now, after which a periodic checkpoint is due
CkptSteps ==
    SelectSeq(StepsAfter(start_n, n_steps),
              LAMBDA k : k % ckpt_interval(cfg) = 0 /\ k < cfg.train_steps)

\* the first checkpoints stored are those of the steps per, each tagged with its
\* step count and holding that step count
PeriodicAsClaimed(per) ==
    /\ Len(stored) >= Len(per)
    /\ \A i \in 1..Len(per) :
          /\ IsStepTag(stored[i], per[i])
          /\ ckpt_dir[stored[i]].n_steps = per[i]

\* the last checkpoint stored has a tag that is no step count and differs from the
\* tags of the first k
FinalTagOfItsOwn(k) ==
    /\ \E i \in DOMAIN stored[Len(stored)] : ~IsDigit(stored[Len(stored)][i])
    /\ stored[Len(stored)] \notin {stored[i] : i \in 1..k}

EvalSteps ==
    SelectSeq(StepsAfter(start_n, n_steps),
              LAMBDA k : k % eval_interval(cfg) = 0 /\ k < cfg.train_steps)

\* C8: without eval_init, evaluate is called once after every step that is a
\* multiple of eval_interval below train_steps, not in the loop on the last step,
\* and once more after the loop, at n_steps = train_steps, the results of that last
\* call being what run returns; with train_steps = 100 and eval_interval = 50 the
\* evaluations are those of steps 50 and 100.
C8_Evaluations ==
    ~cfg.eval_init =>
        /\ pc \in {"new", "ready"} => evals = << >>
        /\ pc = "loop" => evals = EvalSteps /\ returned = 0
        /\ pc = "done" =>
              /\ evals = EvalSteps \o << cfg.train_steps >>
              /\ returned = Len(evals)
              /\ n_steps = cfg.train_steps
        /\ (pc = "done" /\ cfg = Scenario) => evals = << 50, 100 >>

\* C8 witness: the scenario run is done, with one skipped iteration, after two
\* evaluations.
C8_Witness ==
    /\ pc = "done"
    /\ cfg = Scenario
    /\ n_steps_skip = 1
    /\ Len(evals) = 2
    /\ returned = 2

\* the steps of this run, up to now, after which the train metrics are flushed
LogSteps ==
    SelectSeq(StepsAfter(start_n, n_steps),
              LAMBDA k : k % log_interval(cfg) = 0 \/ k = cfg.train_steps)

\* C9: the train metrics are flushed exactly after the iterations that leave
\* n_steps at a multiple of log_interval or at train_steps, once each, committed or
\* skipped; with train_steps = 100 and log_interval = 10 these are the 10 flushes of
\* steps 10, 20, ..., 100.
C9_Flushes ==
    /\ pc \in {"loop", "done"} => flushes = LogSteps
    /\ (pc = "done" /\ cfg = Scenario) =>
          flushes = << 10, 20, 30, 40, 50, 60, 70, 80, 90, 100 >>

\* C9 witness: the scenario run is done after ten flushes, the iteration before the
\* flush of step 10 having been skipped.
C9_Witness ==
    /\ pc = "done"
    /\ cfg = Scenario
    /\ seen[10] = LossNaN
    /\ n_steps_skip = 1
    /\ Len(flushes) = 10

\* the milestones of counter c that are <= k, counted with multiplicity
RECURSIVE MilestonesUpTo(_, _)
MilestonesUpTo(c, k) ==
    IF DOMAIN c = {} THEN 0
    ELSE LET m == CHOOSE x \in DOMAIN c : TRUE
             rest == [x \in DOMAIN c \ {m} |-> c[x]]
         IN  (IF m <= k THEN c[m] ELSE 0) + MilestonesUpTo(rest, k)

\* C10: after construction and any sequence of step, update and load_state_dict,
\* the value at every governed path p is base_values[p] * gammas[p] ** (number of
\* milestones <= last_step, with multiplicity); milestones [10, 10] with factor 1/2
\* and base 8 give 8 at last_step = 9 and 2 at last_step = 10.
C10_ScheduleValue ==
    /\ \A i \in DOMAIN scheduler :
          LET s == scheduler[i]
          IN  \A p \in DOMAIN s.base_values :
                 obj[p] = RMul(s.base_values[p],
                               RPow(s.gammas[p], MilestonesUpTo(s.milestones, s.last_step)))
    /\ cfg.scheduler = SchedulersX =>
          /\ scheduler[1].last_step <= 9 => obj["sigma"] = << 8, 1 >>
          /\ scheduler[1].last_step >= 10 => obj["sigma"] = << 2, 1 >>

\* C10 witness: the schedule of the example has reached last_step = 10, through a
\* load_state_dict, and its value is 2.
C10_Witness ==
    /\ cfg.scheduler = SchedulersX
    /\ loaded # None
    /\ scheduler[1].last_step = 10
    /\ obj["sigma"] = << 2, 1 >>

\* the last call recorded
LastCall(cs) == cs[Len(cs)]

\* the value of path p that child s stands for at its last_step
Scheduled(s, p) ==
    RMul(s.base_values[p], RPow(s.gammas[p], MilestonesUpTo(s.milestones, s.last_step)))

\* C11: update called a second time in a row leaves every value as the first call
\* left it, and what a call of update leaves at every governed path is determined
\* by base_values, gammas, the milestones and last_step, whatever the live value
\* was before the call.
C11_UpdateIdempotent ==
    [][\A i \in DOMAIN scheduler :
          (calls' = Append(calls, << "update", i >>)) =>
              /\ \A p \in DOMAIN scheduler[i].gammas :
                    obj'[p] = Scheduled(scheduler[i], p)
              /\ scheduler' = scheduler
              /\ (calls # << >> /\ LastCall(calls) = << "update", i >>) => obj' = obj]_vars

\* C11 witness: another writer changed a governed value away from the scheduled
\* one, and update was then called twice in a row.
C11_Witness ==
    /\ Len(calls) >= 3
    /\ LastCall(calls) = << "update", 1 >>
    /\ calls[Len(calls) - 1] = << "update", 1 >>
    /\ calls[Len(calls) - 2] = << "drift", "sigma" >>
    /\ Drifted # Scheduled(scheduler[1], "sigma")
    /\ obj["sigma"] = Scheduled(scheduler[1], "sigma")

\* the checkpoint files the transition writes
Written == {f \in DOMAIN ckpt_dir' : f \notin DOMAIN ckpt_dir \/ mtime'[f] # mtime[f]}

\* C12: over any sequence of runs, interruptions and restarts on the same checkpoint
\* directory, no transition writes to a checkpoint name that already exists: every
\* stored checkpoint stays, with its contents and its modification time.
C12_NeverOverwrites ==
    [][\A f \in DOMAIN ckpt_dir :
          /\ f \in DOMAIN ckpt_dir'
          /\ f \notin Written
          /\ ckpt_dir'[f] = ckpt_dir[f]]_vars

\* the stored checkpoint with the most recent modification time holds the greatest
\* n_steps of all
LatestIsGreatest(dir, mt) ==
    \A f \in DOMAIN dir :
        (\A g \in DOMAIN dir : mt[g] <= mt[f]) =>
            \A g \in DOMAIN dir : dir[g].n_steps <= dir[f].n_steps

\* C13: over any sequence of runs and restarts, every checkpoint written holds an
\* n_steps strictly greater than that of every checkpoint stored before, so that the
\* checkpoint with the most recent modification time is the one with the greatest
\* n_steps.
C13_Superseded ==
    [][/\ \A f \in Written :
             \A g \in DOMAIN ckpt_dir : ckpt_dir'[f].n_steps > ckpt_dir[g].n_steps
       /\ LatestIsGreatest(ckpt_dir', mtime')]_vars

\* C14: with no checkpoint file configured, the start of a process restores the
\* state once, before the loop, from the one stored checkpoint whose modification
\* time is the most recent of all; without a stored checkpoint nothing is loaded
\* and training starts from n_steps = 0; nothing is restored after the start.
C14_RestoreAtStartup ==
    [][/\ (pc = "new" /\ pc' = "ready" /\ cfg.ckpt_file = None) =>
             /\ executed' = << >>
             /\ IF DOMAIN ckpt_dir = {}
                THEN /\ loaded' = None
                     /\ n_steps' = 0
                     /\ << time', optim', scheduler', obj' >> = << time, optim, scheduler, obj >>
                ELSE \E f \in DOMAIN ckpt_dir :
                        /\ loaded' = << f >>
                        /\ \A g \in DOMAIN ckpt_dir \ {f} : mtime[g] < mtime[f]
                        /\ n_steps' = ckpt_dir[f].n_steps
                        /\ time' = ckpt_dir[f].time
                        /\ optim' = ckpt_dir[f].optim
                        /\ \A i \in DOMAIN scheduler :
                              scheduler'[i].last_step = ckpt_dir[f].scheduler[i - 1].last_step
       /\ (pc # "new" /\ restarts' = restarts) => loaded' = loaded]_vars

\* C14 witness: a process has just started on a directory of several checkpoints
\* and has restored the state of one of them.
C14_Witness ==
    /\ pc = "ready"
    /\ Cardinality(DOMAIN ckpt_dir) >= 2
    /\ loaded # None
    /\ n_steps = ckpt_dir[loaded[1]].n_steps
    /\ n_steps >= 2

\* C15: in every reachable state, also right after a checkpoint was loaded,
\* 0 <= n_steps_skip <= n_steps, and neither counter decreases while a process runs.
C15_Counters ==
    [][/\ 0 <= n_steps_skip /\ n_steps_skip <= n_steps
       /\ 0 <= n_steps_skip' /\ n_steps_skip' <= n_steps'
       /\ restarts' = restarts => (n_steps' >= n_steps /\ n_steps_skip' >= n_steps_skip)]_vars

\* C15 witness: a process that loaded a checkpoint has since skipped an iteration.
C15_Witness ==
    /\ restarts = 1
    /\ loaded # None
    /\ pc = "loop"
    /\ n_steps_skip = 1
    /\ n_steps_skip < n_steps

\* the value one segment addresses in a value, or "none" when it addresses nothing:
\* an index into a sequence, a key of a mapping, a field of an object
Addressed(v, seg) ==
    CASE v.kind = "sequence" ->
            IF seg \in DOMAIN IntLiterals /\ IntLiterals[seg] < Len(v.val)
            THEN v.val[IntLiterals[seg] + 1] ELSE PyNone
      [] v.kind \in {"mapping", "object"} ->
            IF seg \in DOMAIN v.val THEN v.val[seg] ELSE PyNone
      [] OTHER -> PyNone

\* the value a dotted key addresses, or the default when a segment is absent
RECURSIVE Resolved(_, _, _)
Resolved(v, segs, default) ==
    IF segs = << >> THEN v
    ELSE IF Addressed(v, Head(segs)) = PyNone THEN default
         ELSE Resolved(Addressed(v, Head(segs)), Tail(segs), default)

\* C16: dotted_get raises nothing; it returns the addressed value when every
\* segment exists (an index into a sequence, a key of a mapping, a field of an
\* object) and the default when a segment along the way is absent.
C16_FailsClosed ==
    found # None =>
        /\ found[1].raised = ""
        /\ found[1].obj = Resolved(lookup.obj, lookup.key, lookup.default)

\* C17: run evaluates before its first iteration iff eval_init is set and n_steps
\* is 0 when it starts, and then once: with the evaluations in the loop and the
\* final one, a process has made one evaluation more than those exactly in that
\* case, it being the first and at n_steps = 0; a run resumed at n_steps > 0 makes
\* none.
C17_InitialEvaluation ==
    /\ pc \in {"new", "ready"} => evals = << >>
    /\ pc \in {"loop", "done"} =>
          LET initial == IF cfg.eval_init /\ start_n = 0 THEN 1 ELSE 0
              final == IF pc = "done" THEN 1 ELSE 0
          IN  /\ Len(evals) = initial + Len(EvalSteps) + final
              /\ initial = 1 => evals[1] = 0
              /\ (executed = << >> /\ pc = "loop") => Len(evals) = initial
              /\ start_n > 0 => \A i \in DOMAIN evals : evals[i] > start_n \/ pc = "done"

\* C17 witness: with eval_init set, a run resumed from a checkpoint at n_steps > 0
\* has ended without an initial evaluation.
C17_Witness ==
    /\ cfg.eval_init
    /\ restarts = 1
    /\ loaded # None
    /\ start_n > 0
    /\ pc = "done"
    /\ \A i \in DOMAIN evals : evals[i] > 0

\* the paths child i was configured with, and those of them that resolve on the
\* object at construction
Named(i) == DOMAIN cfg.scheduler[i].gammas

Resolving(i) == Named(i) \cap DOMAIN cfg.models

\* C18: base_values holds, for every governed path, the value the path had at
\* construction before any decay, and no step, update, state_dict or
\* load_state_dict changes it.
C18_BaseValuesFixed ==
    [][\A i \in DOMAIN scheduler :
          /\ scheduler'[i].base_values = scheduler[i].base_values
          /\ DOMAIN scheduler[i].base_values = Resolving(i)
          /\ \A p \in Resolving(i) : scheduler[i].base_values[p] = cfg.models[p]]_vars

\* C18 witness: a schedule constructed past a milestone has been stepped past a
\* further one and has loaded a state dict; its live value differs from the base
\* value.
C18_Witness ==
    /\ cfg.scheduler = SchedulersY
    /\ loaded # None
    /\ scheduler[1].last_step >= 3
    /\ scheduler[1].base_values["sigma"] = cfg.models["sigma"]
    /\ obj["sigma"] # scheduler[1].base_values["sigma"]

\* C19, for paths of one segment on a plain object: a path named in gammas that
\* does not resolve at construction is left out
\* of the schedule for good: whatever is called afterwards, it is in neither gammas
\* nor base_values nor the state dict, get does not report it, nothing is written
\* to it, and every resolving path stays governed.
C19_DroppedPaths ==
    \A i \in DOMAIN scheduler :
        /\ DOMAIN scheduler[i].gammas = Resolving(i)
        /\ DOMAIN scheduler[i].base_values = Resolving(i)
        /\ DOMAIN MultiStepParams_state_dict(scheduler[i]).gammas = Resolving(i)
        /\ DOMAIN MultiStepParams_get(scheduler[i], obj) = Resolving(i)
        /\ (Named(i) \ Resolving(i)) \cap DOMAIN CombinedScheduler_get(scheduler, obj) = {}
        /\ (Named(i) \ Resolving(i)) \cap DOMAIN obj = {}
        /\ \A p \in Resolving(i) : obj[p] = Scheduled(scheduler[i], p)

\* C19, for paths of one segment: a schedule configured with a path that does not resolve has been
\* stepped past a milestone and has loaded a state dict.
C19_Witness ==
    /\ cfg.scheduler = SchedulersB
    /\ Named(1) \ Resolving(1) = {"zeta"}
    /\ loaded # None
    /\ scheduler[1].last_step >= 1
    /\ obj["sigma"] # cfg.models["sigma"]

\* C19: a schedule is constructed without an exception, whatever paths its gammas
\* name; the paths that do not resolve on the object are dropped and exactly the
\* resolving ones are governed, with the values they address as base values.
C19_DroppedNotRaised ==
    found # None =>
        LET resolving == {lookup.keys[i] : i \in {j \in DOMAIN lookup.keys :
                              Resolved(lookup.obj, lookup.keys[j], PyNone) # PyNone}}
        IN  /\ found[1].raised = ""
            /\ found[1].gammas = resolving
            /\ \A k \in resolving :
                  found[1].base_values[k] = Resolved(lookup.obj, k, PyNone)

\* C20: with use_ema set, the EMA copy is updated only in committed iterations, by
\* one update at a time, and once per ema_steps committed steps: after c committed
\* steps of a run from zero it has been updated between c \div ema_steps and
\* (c + ema_steps - 1) \div ema_steps times, however committed and skipped
\* iterations interleave.
C20_EmaStride ==
    [][(cfg.use_ema /\ IsIteration /\ restarts = 0) =>
          LET c == n_steps' - n_steps_skip'
              e == cfg.ema_steps
          IN  /\ ema' # ema => (outcome'.committed /\ ema' = ema + 1)
              /\ c \div e <= ema'
              /\ ema' <= (c + e - 1) \div e]_vars

\* the factor the next step of child s applies to path p
StepFactor(s, p) ==
    IF p \in DOMAIN s.gammas /\ s.last_step + 1 \in DOMAIN s.milestones
    THEN RPow(s.gammas[p], s.milestones[s.last_step + 1])
    ELSE Rat(1, 1)

\* the product of the factors the next steps of the first i children apply to p
RECURSIVE StepFactors(_, _)
StepFactors(i, p) ==
    IF i = 0 THEN Rat(1, 1) ELSE RMul(StepFactors(i - 1, p), StepFactor(scheduler[i], p))

\* the last child, in list order, of the children ss that governs path p
LastGoverning(ss, p) ==
    CHOOSE j \in DOMAIN ss :
        /\ p \in DOMAIN ss[j].gammas
        /\ \A k \in DOMAIN ss : p \in DOMAIN ss[k].gammas => k <= j

\* the paths some child of ss governs
GovernedPaths(ss) == UNION {DOMAIN ss[i].gammas : i \in DOMAIN ss}

CommittedSteps == n_steps - n_steps_skip

\* how often k is a milestone of counter c
FiresAt(c, k) == IF k \in DOMAIN c THEN c[k] ELSE 0

\* C22: in a process that started from zero and loaded no checkpoint, every schedule
\* constructed with last_step = 0 has last_step = n_steps - n_steps_skip after every
\* iteration and its governed values are those of that many steps; a committed
\* iteration that is the m-th one applies the factor of milestone m, as often as m is
\* listed, and a skipped iteration leaves last_step and the governed values alone.
C22_CommittedSteps ==
    [][loaded' = None =>
        \A i \in DOMAIN scheduler' :
            cfg.scheduler[i].last_step = 0 =>
                LET s == scheduler[i]
                    t == scheduler'[i]
                    m == n_steps' - n_steps_skip'
                IN  /\ t.last_step = m
                    /\ \A p \in DOMAIN t.base_values :
                          obj'[p] = RMul(t.base_values[p],
                                         RPow(t.gammas[p], MilestonesUpTo(t.milestones, m)))
                    /\ IsIteration =>
                          IF outcome'.committed
                          THEN /\ t.last_step = s.last_step + 1
                               /\ \A p \in DOMAIN t.base_values :
                                     obj'[p] = RMul(obj[p],
                                                    RPow(t.gammas[p], FiresAt(t.milestones, m)))
                          ELSE /\ t.last_step = s.last_step
                               /\ \A p \in DOMAIN t.base_values : obj'[p] = obj[p]]_vars

\* C22 witness: a run from zero that loaded nothing has ended with a skipped
\* iteration among its iterations; the milestone listed twice at 2 fired on the
\* second committed step, and last_step is behind n_steps by the skip.
C22_Witness ==
    /\ restarts = 0
    /\ loaded = None
    /\ pc = "done"
    /\ cfg.scheduler = SchedulersA
    /\ n_steps_skip >= 1
    /\ CommittedSteps >= 2
    /\ scheduler[1].last_step = CommittedSteps
    /\ scheduler[1].last_step < n_steps
    /\ obj["sigma"] = Rat(2, 1)

====
